---- MODULE Spec2Model ----
(***************************************************************************)
(* A model of bootstrap/bootstrap.go: the module descriptors goPackage and *)
(* goBinary, the two mutator passes (primaryBuilderPluginFinder and        *)
(* propagateStageBootstrap), the per-module GenerateBuildActions and the   *)
(* singleton's GenerateBuildActions.  One behaviour is one manifest        *)
(* generation (optionally repeated) over one module graph.                 *)
(***************************************************************************)
EXTENDS Naturals, Sequences, FiniteSets, TLC

VARIABLES
    config,                 \* the bootstrap Config: [stage, runGoTests, topLevelBlueprintsFile]
    modules,                \* the module graph: a sequence of module descriptors
    primaryBuilderPlugins,  \* the package-level []string of bootstrap.go:114
    phase,                  \* which pass of the generation is running
    visited,                \* indices of the modules the running pass has handled
    moduleActions,          \* per module: the BuildParams it passed to ctx.Build, in order
    moduleErrors,           \* per module: the messages it passed to ctx.ModuleErrorf
    singletonActions,       \* the BuildParams the singleton passed to ctx.Build, in order
    singletonRules,         \* the rules the singleton created with ctx.Rule
    singletonErrors,        \* the singleton's ctx.Errorf / ctx.ModuleErrorf reports
    rebootstrapDeps,        \* the singleton's list of that name, as it stood on return
    primaryRebootstrapDeps, \* the singleton's list of that name, as it stood on return
    run,                    \* number of the generation under way (1 = the first)
    prevActions             \* moduleActions of the previous generation (<<>> in the first)

vars == <<config, modules, primaryBuilderPlugins, phase, visited, moduleActions,
          moduleErrors, singletonActions, singletonRules, singletonErrors,
          rebootstrapDeps, primaryRebootstrapDeps, run, prevActions>>

-----------------------------------------------------------------------------
(* Bounds of the model. *)

\* Longest declared source list (Srcs) of a module.
MaxSrcs == 2

\* Number of generations run in succession on the same graph.
MaxRuns == 2

\* The names (and, by position, the declaration order) of the modules a graph
\* may hold; a graph holds a prefix of them.
ModuleNames == <<"liba", "minibp", "libc">>

\* Graphs with every descriptor field drawn freely hold at most this prefix.
FullNames == SubSeq(ModuleNames, 1, 2)

-----------------------------------------------------------------------------
(* Stages and program constants. *)

StageBootstrap == "StageBootstrap"
StagePrimary   == "StagePrimary"
StageMain      == "StageMain"
Stages == {StageBootstrap, StagePrimary, StageMain}

bootstrapDir     == "$buildDir/.bootstrap"

-----------------------------------------------------------------------------
(* Sequences and paths. *)

Range(s) == {s[i] : i \in 1..Len(s)}

RECURSIVE JoinStrings(_, _)
\* strings.Join(elems, sep)
JoinStrings(elems, sep) ==
    IF elems = <<>> THEN ""
    ELSE IF Len(elems) = 1 THEN elems[1]
    ELSE elems[1] \o sep \o JoinStrings(Tail(elems), sep)

RECURSIVE dropEmpty(_)
\* filepath.Join ignores empty elements.
dropEmpty(elems) ==
    IF elems = <<>> THEN <<>>
    ELSE IF Head(elems) = "" THEN dropEmpty(Tail(elems))
    ELSE <<Head(elems)>> \o dropEmpty(Tail(elems))

\* The positions of the separators in path.
separators(path) == {k \in 1..Len(path) : SubSeq(path, k, k) = "/"}

RECURSIVE splitFrom(_, _, _)
\* The elements of path from position start on, cut at the separators seps.
splitFrom(path, start, seps) ==
    LET ahead == {k \in seps : k >= start} IN
    IF ahead = {} THEN <<SubSeq(path, start, Len(path))>>
    ELSE LET k == CHOOSE n \in ahead : \A m \in ahead : n <= m
         IN  <<SubSeq(path, start, k - 1)>> \o splitFrom(path, k + 1, seps)

\* The elements of path between its separators, as strings.Split(path, "/")
\* gives them.
splitPath(path) == splitFrom(path, 1, separators(path))

RECURSIVE cleanElems(_, _, _)
\* The element rules of filepath.Clean: empty and "." elements go, ".." takes
\* the element before it away, or stays when there is none to take (and goes
\* when the path is rooted).
cleanElems(elems, out, rooted) ==
    IF elems = <<>> THEN out
    ELSE IF Head(elems) = "" \/ Head(elems) = "." THEN cleanElems(Tail(elems), out, rooted)
    ELSE IF Head(elems) = ".."
    THEN IF out # <<>> /\ out[Len(out)] # ".."
         THEN cleanElems(Tail(elems), SubSeq(out, 1, Len(out) - 1), rooted)
         ELSE IF rooted THEN cleanElems(Tail(elems), out, rooted)
         ELSE cleanElems(Tail(elems), Append(out, ".."), rooted)
    ELSE cleanElems(Tail(elems), Append(out, Head(elems)), rooted)

\* filepath.Clean(path)
Clean(path) ==
    LET rooted == path # "" /\ Head(path) = "/"
        out    == cleanElems(splitPath(path), <<>>, rooted)
    IN  IF rooted THEN "/" \o JoinStrings(out, "/")
        ELSE IF out = <<>> THEN "."
        ELSE JoinStrings(out, "/")

\* filepath.Join(elems...): the non-empty elements joined by the separator,
\* cleaned; "" if there is none.
Join(elems) ==
    LET ne == dropEmpty(elems)
    IN  IF ne = <<>> THEN "" ELSE Clean(JoinStrings(ne, "/"))

\* filepath.Base(path): the last element, trailing separators set aside.
Base(path) ==
    LET elems == SelectSeq(splitPath(path), LAMBDA e : e # "")
    IN  IF path = "" THEN "."
        ELSE IF elems = <<>> THEN "/"
        ELSE elems[Len(elems)]

\* filepath.Dir(path): all but the last element, cleaned.
Dir(path) ==
    LET elems == splitPath(path)
    IN  IF Len(elems) = 1 THEN Clean("")
        ELSE Clean(JoinStrings(SubSeq(elems, 1, Len(elems) - 1), "/") \o "/")

\* pathtools.PrefixPaths(paths, prefix)
PrefixPaths(paths, prefix) == [i \in 1..Len(paths) |-> Join(<<prefix, paths[i]>>)]

-----------------------------------------------------------------------------
(* Module descriptors.  A descriptor carries the declared properties, the   *)
(* graph placement (name, dir, deps) and the fields the code mutates        *)
(* (buildStage, pkgRoot, archiveFile, testArchiveFile).  Kind "other" is a  *)
(* module type that implements none of this file's interfaces.              *)

SrcFiles == <<"a.go", "b.go", "c.go", "d.go">>

\* The declared-source lists a module may have: one file, or MaxSrcs files.
SrcChoices == {SubSeq(SrcFiles, 1, k) : k \in {1, MaxSrcs}}

TestSrcChoices == {<<>>, <<"a_test.go">>}

\* ctx.ModuleDir() of each module.
ModuleDirOf(name) == IF name = "libc" THEN "." ELSE "lib"

\* The package identifier a well-formed goPackage of that name declares.
PkgPathOf(name) == "github.com/x/" \o name

\* The static "deps" lists of the module in slot i: the lower slots, in order.
DepChoices(i) ==
    {SelectSeq(SubSeq(ModuleNames, 1, i - 1), LAMBDA nm : nm \in S) :
        S \in SUBSET Range(SubSeq(ModuleNames, 1, i - 1))}

\* newGoPackageModuleFactory: a goPackage starts in StagePrimary with its
\* derived paths unset.
newGoPackage(name, deps, pkgPath, srcs, testSrcs, plugin) ==
    [name |-> name, kind |-> "goPackage", dir |-> ModuleDirOf(name), deps |-> deps,
     PkgPath |-> pkgPath, Srcs |-> srcs, TestSrcs |-> testSrcs, Plugin |-> plugin,
     PrimaryBuilder |-> FALSE, factoryStage |-> StagePrimary,
     buildStage |-> StagePrimary,
     pkgRoot |-> "", archiveFile |-> "", testArchiveFile |-> ""]

\* newGoBinaryModuleFactory(config, buildStage)
newGoBinary(name, deps, srcs, testSrcs, primaryBuilder, stage) ==
    [name |-> name, kind |-> "goBinary", dir |-> ModuleDirOf(name), deps |-> deps,
     PkgPath |-> "", Srcs |-> srcs, TestSrcs |-> testSrcs, Plugin |-> FALSE,
     PrimaryBuilder |-> primaryBuilder, factoryStage |-> stage,
     buildStage |-> stage,
     pkgRoot |-> "", archiveFile |-> "", testArchiveFile |-> ""]

\* A module of a type this file does not define: no stage, no artifacts.
newOther(name, deps) ==
    [name |-> name, kind |-> "other", dir |-> ModuleDirOf(name), deps |-> deps,
     PkgPath |-> "", Srcs |-> <<>>, TestSrcs |-> <<>>, Plugin |-> FALSE,
     PrimaryBuilder |-> FALSE, factoryStage |-> "none", buildStage |-> "none",
     pkgRoot |-> "", archiveFile |-> "", testArchiveFile |-> ""]

\* Every declaration slot i may hold.
FullDecls(i) ==
    LET name == ModuleNames[i] IN
    {newGoPackage(name, d, p, s, t, pl) :
        d \in DepChoices(i), p \in {"", PkgPathOf(name)}, s \in SrcChoices,
        t \in TestSrcChoices, pl \in BOOLEAN}
    \cup
    {newGoBinary(name, d, s, t, pb, st) :
        d \in DepChoices(i), s \in SrcChoices, t \in TestSrcChoices,
        pb \in BOOLEAN, st \in Stages}
    \cup
    {newOther(name, d) : d \in DepChoices(i)}

\* The declarations of the larger graphs: kind, factory stage and deps vary.
PlainDecls(i) ==
    LET name == ModuleNames[i] IN
    {newGoPackage(name, d, PkgPathOf(name), <<"a.go">>, <<>>, FALSE) :
        d \in DepChoices(i)}
    \cup
    {newGoBinary(name, d, <<"a.go">>, <<>>, FALSE, st) :
        d \in DepChoices(i), st \in Stages}
    \cup
    {newOther(name, d) : d \in DepChoices(i)}

RECURSIVE FullGraphs(_)
FullGraphs(n) ==
    IF n = 0 THEN {<<>>}
    ELSE {Append(g, d) : g \in FullGraphs(n - 1), d \in FullDecls(n)}

RECURSIVE PlainGraphs(_)
PlainGraphs(n) ==
    IF n = 0 THEN {<<>>}
    ELSE {Append(g, d) : g \in PlainGraphs(n - 1), d \in PlainDecls(n)}

-----------------------------------------------------------------------------
(* The graph engine's view of the modules. *)

IndexOf(mods, name) == CHOOSE i \in 1..Len(mods) : mods[i].name = name

RECURSIVE dedup(_, _)
dedup(s, seen) ==
    IF s = <<>> THEN <<>>
    ELSE IF Head(s) \in seen THEN dedup(Tail(s), seen)
    ELSE <<Head(s)>> \o dedup(Tail(s), seen \cup {Head(s)})

\* goBinary.DynamicDependencies
DynamicDependencies(m, plugins) ==
    IF m.kind = "goBinary" /\ m.PrimaryBuilder THEN plugins ELSE <<>>

\* The direct dependencies of module i, as slots: the static deps followed by
\* the dynamic ones, each module once, names the graph does not hold dropped.
DirectDeps(mods, plugins, i) ==
    LET names == dedup(mods[i].deps \o DynamicDependencies(mods[i], plugins), {})
        known == SelectSeq(names, LAMBDA nm : \E j \in 1..Len(mods) : mods[j].name = nm)
    IN  [k \in 1..Len(known) |-> IndexOf(mods, known[k])]

\* The plugin list the plugin finder builds from an empty list.
PluginNames(mods) ==
    LET idx == SelectSeq([i \in 1..Len(mods) |-> i],
                         LAMBDA i : mods[i].kind = "goPackage" /\ mods[i].Plugin)
    IN  [k \in 1..Len(idx) |-> mods[idx[k]].name]

RECURSIVE ReachFrom(_, _, _, _)
\* The slots reachable from the slots in `front` in at most k dependency steps.
ReachFrom(mods, plugins, front, k) ==
    IF k = 0 THEN front
    ELSE ReachFrom(mods, plugins,
                   front \cup UNION {Range(DirectDeps(mods, plugins, j)) : j \in front},
                   k - 1)

\* The direct and transitive dependencies of module i.
TransDeps(mods, plugins, i) ==
    ReachFrom(mods, plugins, Range(DirectDeps(mods, plugins, i)), Len(mods))

\* The engine rejects a graph with a dependency cycle.
Acyclic(mods) ==
    \A i \in 1..Len(mods) : i \notin TransDeps(mods, PluginNames(mods), i)

\* The slots of the modules that directly depend on module i.
Dependents(mods, plugins, i) ==
    {j \in 1..Len(mods) : i \in Range(DirectDeps(mods, plugins, j))}

RECURSIVE walk(_, _, _, _)
RECURSIVE walkDeps(_, _, _, _)
\* The depth-first walk behind VisitDepsDepthFirstIf: a module is appended
\* once all of its direct dependencies have been walked.
walk(mods, plugins, i, done) ==
    Append(walkDeps(mods, plugins, DirectDeps(mods, plugins, i), done), i)

walkDeps(mods, plugins, deps, done) ==
    IF deps = <<>> THEN done
    ELSE walkDeps(mods, plugins, Tail(deps),
                  IF Head(deps) \in Range(done) THEN done
                  ELSE walk(mods, plugins, Head(deps), done))

\* ctx.VisitDepsDepthFirstIf(pred, ...) called from module i: the slots
\* visited, in visiting order (the module itself is not visited).  `kinds`
\* and `pluginOnly` stand for the predicate: the module kinds it accepts and
\* whether it also asks IsPlugin().
VisitDepsDepthFirstIf(mods, plugins, i, kinds, pluginOnly) ==
    SelectSeq(walk(mods, plugins, i, <<>>),
              LAMBDA j : /\ j # i
                         /\ mods[j].kind \in kinds
                         /\ (pluginOnly => mods[j].Plugin))

\* The modules below i that satisfy isGoPackageProducer: the goPackage
\* modules (a goBinary has no GoPkgRoot).
VisitGoPackageProducers(mods, plugins, i) ==
    VisitDepsDepthFirstIf(mods, plugins, i, {"goPackage"}, FALSE)

\* The modules below i that satisfy isGoPlugin: the goPackage modules whose
\* IsPlugin() is true.
VisitGoPlugins(mods, plugins, i) ==
    VisitDepsDepthFirstIf(mods, plugins, i, {"goPackage"}, TRUE)

\* the type assertion mod.(bootstrapGoCore)
isBootstrapGoCore(m) == m.kind \in {"goPackage", "goBinary"}

-----------------------------------------------------------------------------
(* Build actions. *)

\* blueprint.BuildParams as passed to ctx.Build.  Args is the argument map,
\* as a set of <<key, value>> pairs; a nil slice is the empty sequence.
BuildParams(rule, outputs, inputs, implicits, orderOnly, args) ==
    [Rule |-> rule, Outputs |-> outputs, Inputs |-> inputs,
     Implicits |-> implicits, OrderOnly |-> orderOnly, Args |-> args]

packageRoot(m)  == Join(<<bootstrapDir, m.name, "pkg">>)
testRoot(m)     == Join(<<bootstrapDir, m.name, "test">>)
moduleSrcDir(m) == Join(<<"$srcDir", m.dir>>)
moduleObjDir(m) == Join(<<bootstrapDir, m.name, "obj">>)

\* compileArgs with incFlags set even when there are none.
compileArgsAlwaysIncFlags(pkgPath, incFlags) ==
    {<<"pkgPath", pkgPath>>, <<"incFlags", JoinStrings(incFlags, " ")>>}

\* compileArgs of buildGoPackage: incFlags is set only if there are any.
compileArgsOf(pkgPath, incFlags) ==
    {<<"pkgPath", pkgPath>>} \cup
    (IF Len(incFlags) > 0 THEN {<<"incFlags", JoinStrings(incFlags, " ")>>} ELSE {})

\* buildGoPackage: the one compile action for archiveFile.
buildGoPackage(mods, plugins, i, pkgRoot, pkgPath, archiveFile, srcs, genSrcs, orderDeps) ==
    LET srcFiles  == PrefixPaths(srcs, moduleSrcDir(mods[i])) \o genSrcs
        producers == VisitGoPackageProducers(mods, plugins, i)
        incFlags  == [k \in 1..Len(producers) |-> "-I " \o mods[producers[k]].pkgRoot]
        deps      == <<"$compileCmd">> \o
                     [k \in 1..Len(producers) |-> mods[producers[k]].archiveFile]
        compileArgs == compileArgsOf(pkgPath, incFlags)
    IN  <<BuildParams("compile", <<archiveFile>>, srcFiles, deps, orderDeps, compileArgs)>>

\* buildGoTest returning the test executable as the order-only dep.
buildGoTestExposingExecutable(mods, plugins, i, root, testPkgArchive, pkgPath, srcs, genSrcs, testSrcs) ==
    IF Len(testSrcs) = 0 THEN [actions |-> <<>>, deps |-> <<>>]
    ELSE
    LET srcDir      == moduleSrcDir(mods[i])
        testFiles   == PrefixPaths(testSrcs, srcDir)
        mainFile    == Join(<<root, "test.go">>)
        testArchive == Join(<<root, "test.a">>)
        testFile    == Join(<<root, "test">>)
        testPassed  == Join(<<root, "test.passed">>)
        producers   == VisitGoPackageProducers(mods, plugins, i)
        libDirFlags == <<"-L " \o root>> \o
                       [k \in 1..Len(producers) |-> "-L " \o mods[producers[k]].pkgRoot]
    IN  [actions |->
            buildGoPackage(mods, plugins, i, root, pkgPath, testPkgArchive,
                           srcs \o testSrcs, genSrcs, <<>>)
            \o
            <<BuildParams("gotestmain", <<mainFile>>, testFiles, <<"$goTestMainCmd">>,
                          <<>>, {<<"pkg", pkgPath>>}),
              BuildParams("compile", <<testArchive>>, <<mainFile>>,
                          <<"$compileCmd", testPkgArchive>>, <<>>,
                          {<<"pkgPath", "main">>, <<"incFlags", "-I " \o root>>}),
              BuildParams("link", <<testFile>>, <<testArchive>>, <<"$linkCmd">>, <<>>,
                          {<<"libDirFlags", JoinStrings(libDirFlags, " ")>>}),
              BuildParams("test", <<testPassed>>, <<testFile>>, <<>>, <<>>,
                          {<<"pkg", pkgPath>>, <<"pkgSrcDir", Dir(testFiles[1])>>})>>,
         deps |-> <<testFile>>]

\* buildGoTest: the test pipeline and the order-only deps it returns.
buildGoTest(mods, plugins, i, root, testPkgArchive, pkgPath, srcs, genSrcs, testSrcs) ==
    IF Len(testSrcs) = 0 THEN [actions |-> <<>>, deps |-> <<>>]
    ELSE
    LET srcDir      == moduleSrcDir(mods[i])
        testFiles   == PrefixPaths(testSrcs, srcDir)
        mainFile    == Join(<<root, "test.go">>)
        testArchive == Join(<<root, "test.a">>)
        testFile    == Join(<<root, "test">>)
        testPassed  == Join(<<root, "test.passed">>)
        producers   == VisitGoPackageProducers(mods, plugins, i)
        libDirFlags == <<"-L " \o root>> \o
                       [k \in 1..Len(producers) |-> "-L " \o mods[producers[k]].pkgRoot]
    IN  [actions |->
            buildGoPackage(mods, plugins, i, root, pkgPath, testPkgArchive,
                           srcs \o testSrcs, genSrcs, <<>>)
            \o
            <<BuildParams("gotestmain", <<mainFile>>, testFiles, <<"$goTestMainCmd">>,
                          <<>>, {<<"pkg", pkgPath>>}),
              BuildParams("compile", <<testArchive>>, <<mainFile>>,
                          <<"$compileCmd", testPkgArchive>>, <<>>,
                          {<<"pkgPath", "main">>, <<"incFlags", "-I " \o root>>}),
              BuildParams("link", <<testFile>>, <<testArchive>>, <<"$linkCmd">>, <<>>,
                          {<<"libDirFlags", JoinStrings(libDirFlags, " ")>>}),
              BuildParams("test", <<testPassed>>, <<testFile>>, <<>>, <<>>,
                          {<<"pkg", pkgPath>>, <<"pkgSrcDir", Dir(testFiles[1])>>})>>,
         deps |-> <<testPassed>>]

\* phonyGoTarget without the per-source marker actions.
phonyGoTargetNoSourceMarkers(mods, plugins, i, target, srcs, gensrcs, intermediates) ==
    LET producers  == VisitGoPackageProducers(mods, plugins, i)
        depTargets == [k \in 1..Len(producers) |-> mods[producers[k]].archiveFile]
        allSrcs    == PrefixPaths(srcs, Join(<<"$srcDir", mods[i].dir>>)) \o gensrcs
    IN  <<BuildParams("phony", <<target>>, allSrcs, depTargets, <<>>, {})>>
        \o [k \in 1..Len(intermediates) |->
                BuildParams("blueprint.Phony", <<intermediates[k]>>, <<>>, <<>>, <<>>, {})]

\* phonyGoTarget: the placeholder action for target, then one marker action
\* per source and per intermediate.
phonyGoTarget(mods, plugins, i, target, srcs, gensrcs, intermediates) ==
    LET producers  == VisitGoPackageProducers(mods, plugins, i)
        depTargets == [k \in 1..Len(producers) |-> mods[producers[k]].archiveFile]
        allSrcs    == PrefixPaths(srcs, Join(<<"$srcDir", mods[i].dir>>)) \o gensrcs
    IN  <<BuildParams("phony", <<target>>, allSrcs, depTargets, <<>>, {})>>
        \o [k \in 1..Len(allSrcs) |->
                BuildParams("blueprint.Phony", <<allSrcs[k]>>, <<>>, <<>>, <<>>, {})]
        \o [k \in 1..Len(intermediates) |->
                BuildParams("blueprint.Phony", <<intermediates[k]>>, <<>>, <<>>, <<>>, {})]

-----------------------------------------------------------------------------
(* Per-module action generation.  Each operator gives the descriptor after  *)
(* the call, the actions passed to ctx.Build and the errors reported.       *)

hasTests(m, cfg) == Len(m.TestSrcs) > 0 /\ cfg.runGoTests

\* GoPkgPath answering with the module name instead of the package path.
GoPkgPathAsModuleName(m) == m.name

\* goPackage.GoPkgPath
GoPkgPath(m) == m.PkgPath

\* GenerateBuildActions going on without the test of PkgPath.
pkgPathUnchecked(g) == TRUE

\* The test of g.properties.PkgPath that opens goPackage.GenerateBuildActions.
pkgPathValid(g) == g.PkgPath # ""

\* The first branch of both GenerateBuildActions: build for real.
emitsReal(cfg, g) == cfg.stage = g.buildStage

\* The second branch taken without the test of the active stage.
emitsPhonyInEveryStage(cfg, g) == TRUE

\* The second branch of both GenerateBuildActions: emit placeholders.
emitsPhony(cfg, g) == cfg.stage # StageBootstrap

\* genSrcs with one synthesized source per entry of the plugin list.
genSrcsPerPlugin(g, plugins) ==
    IF g.PrimaryBuilder
    THEN [k \in 1..Len(plugins) |-> Join(<<moduleObjDir(g), plugins[k] \o ".go">>)]
    ELSE <<>>

\* genSrcs of goBinary.GenerateBuildActions: the synthesized plugin source,
\* if the binary is the primary builder and the plugin list is not empty.
genSrcsOf(g, plugins) ==
    IF g.PrimaryBuilder /\ Len(plugins) > 0
    THEN <<Join(<<moduleObjDir(g), "plugin.go">>)>>
    ELSE <<>>

\* goPackage.GenerateBuildActions
goPackageGenerate(mods, plugins, cfg, i) ==
    LET g == mods[i] IN
    IF ~pkgPathValid(g)
    THEN [module  |-> g,
          actions |-> <<>>,
          errors  |-> <<"module " \o g.name \o " did not specify a valid pkgPath">>]
    ELSE
    LET pkgRoot     == packageRoot(g)
        archiveFile == Join(<<pkgRoot, g.PkgPath \o ".a">>)
        testArchiveFile ==
            IF hasTests(g, cfg) THEN Join(<<testRoot(g), g.PkgPath \o ".a">>)
            ELSE g.testArchiveFile
        g2   == [g EXCEPT !.pkgRoot = pkgRoot, !.archiveFile = archiveFile,
                          !.testArchiveFile = testArchiveFile]
        ms   == [mods EXCEPT ![i] = g2]
        t    == IF cfg.runGoTests
                THEN buildGoTest(ms, plugins, i, testRoot(g), testArchiveFile,
                                 g.PkgPath, g.Srcs, <<>>, g.TestSrcs)
                ELSE [actions |-> <<>>, deps |-> <<>>]
    IN  [module  |-> g2,
         actions |->
            IF emitsReal(cfg, g)
            THEN t.actions \o
                 buildGoPackage(ms, plugins, i, pkgRoot, g.PkgPath, archiveFile,
                                g.Srcs, <<>>, t.deps)
            ELSE IF emitsPhony(cfg, g)
            THEN (IF hasTests(g, cfg)
                  THEN phonyGoTarget(ms, plugins, i, testArchiveFile, g.TestSrcs,
                                     <<>>, <<>>)
                  ELSE <<>>)
                 \o phonyGoTarget(ms, plugins, i, archiveFile, g.Srcs, <<>>, <<>>)
            ELSE <<>>,
         errors  |-> <<>>]

\* goBinary.GenerateBuildActions
goBinaryGenerate(mods, plugins, cfg, i) ==
    LET g           == mods[i]
        name        == g.name
        objDir      == moduleObjDir(g)
        archiveFile == Join(<<objDir, name \o ".a">>)
        aoutFile    == Join(<<objDir, "a.out">>)
        binaryFile  == Join(<<"$BinDir", name>>)
        testArchiveFile ==
            IF hasTests(g, cfg) THEN Join(<<testRoot(g), name \o ".a">>)
            ELSE g.testArchiveFile
        genSrcs     == genSrcsOf(g, plugins)
        pluginSrc   == IF genSrcs # <<>> THEN genSrcs[1] ELSE ""
        g2          == [g EXCEPT !.testArchiveFile = testArchiveFile]
        ms          == [mods EXCEPT ![i] = g2]
        pluginMods  == VisitGoPlugins(ms, plugins, i)
        pluginPaths == [k \in 1..Len(pluginMods) |-> GoPkgPath(ms[pluginMods[k]])]
        producers   == VisitGoPackageProducers(ms, plugins, i)
        libDirFlags == [k \in 1..Len(producers) |-> "-L " \o ms[producers[k]].pkgRoot]
        linkArgs    == IF Len(libDirFlags) > 0
                       THEN {<<"libDirFlags", JoinStrings(libDirFlags, " ")>>}
                       ELSE {}
        t    == IF cfg.runGoTests
                THEN buildGoTest(ms, plugins, i, testRoot(g), testArchiveFile,
                                 name, g.Srcs, genSrcs, g.TestSrcs)
                ELSE [actions |-> <<>>, deps |-> <<>>]
    IN  [module  |-> g2,
         actions |->
            IF emitsReal(cfg, g)
            THEN (IF pluginSrc # ""
                  THEN <<BuildParams("pluginGenSrc", <<pluginSrc>>, <<>>,
                                     <<"$pluginGenSrcCmd">>, <<>>,
                                     {<<"plugins", JoinStrings(pluginPaths, " ")>>})>>
                  ELSE <<>>)
                 \o t.actions
                 \o buildGoPackage(ms, plugins, i, objDir, name, archiveFile,
                                   g.Srcs, genSrcs, t.deps)
                 \o <<BuildParams("link", <<aoutFile>>, <<archiveFile>>, <<"$linkCmd">>,
                                  <<>>, linkArgs),
                      BuildParams("cp", <<binaryFile>>, <<aoutFile>>, <<>>, <<>>, {})>>
            ELSE IF emitsPhony(cfg, g)
            THEN (IF hasTests(g, cfg)
                  THEN phonyGoTarget(ms, plugins, i, testArchiveFile, g.TestSrcs,
                                     <<>>, <<>>)
                  ELSE <<>>)
                 \o phonyGoTarget(ms, plugins, i, binaryFile, g.Srcs, genSrcs,
                                  <<aoutFile, archiveFile>>)
            ELSE <<>>,
         errors  |-> <<>>]

-----------------------------------------------------------------------------
(* The singleton. *)

\* ctx.VisitAllModulesIf(pred, ...): the slots of the given kinds, in
\* declaration order.
VisitAllModulesIf(mods, kinds) ==
    SelectSeq([i \in 1..Len(mods) |-> i], LAMBDA i : mods[i].kind \in kinds)

minibpFile == Join(<<"$BinDir", "minibp">>)
docsDir    == Join(<<bootstrapDir, "docs">>)

mainNinjaFile           == Join(<<bootstrapDir, "main.ninja.in">>)
primaryBuilderNinjaFile == Join(<<bootstrapDir, "primary.ninja.in">>)
bootstrapNinjaFile      == Join(<<bootstrapDir, "bootstrap.ninja.in">>)
buildNinjaIn            == Join(<<bootstrapDir, "build.ninja.in">>)
notAFile                == Join(<<bootstrapDir, "notAFile">>)
mainNinjaTimestampFile              == mainNinjaFile \o ".timestamp"
mainNinjaTimestampDepFile           == mainNinjaTimestampFile \o ".d"
primaryBuilderNinjaTimestampFile    == primaryBuilderNinjaFile \o ".timestamp"
primaryBuilderNinjaTimestampDepFile == primaryBuilderNinjaTimestampFile \o ".d"

\* The primaryBuilders slice: the goBinary modules flagged PrimaryBuilder.
primaryBuildersOf(mods) ==
    SelectSeq(VisitAllModulesIf(mods, {"goBinary"}), LAMBDA i : mods[i].PrimaryBuilder)

\* primaryBuilderName of the switch on len(primaryBuilders), cases 0 and 1.
primaryBuilderNameOf(mods) ==
    IF Len(primaryBuildersOf(mods)) = 0 THEN "minibp"
    ELSE mods[primaryBuildersOf(mods)[1]].name

\* primaryBuilderExtraFlags
primaryBuilderExtraFlagsOf(mods, cfg) ==
    (IF Len(primaryBuildersOf(mods)) = 0 THEN "-p" ELSE "")
    \o (IF cfg.runGoTests THEN " -t" ELSE "")

\* topLevelBlueprints: filepath.Base of the configured file, under $srcDir.
topLevelBlueprintsOf(cfg) == Join(<<"$srcDir", Base(cfg.topLevelBlueprintsFile)>>)

docsFileOf(mods) == Join(<<docsDir, primaryBuilderNameOf(mods) \o ".html">>)

\* The test targets the second VisitAllModulesIf collects for the modules
\* whose stage is (inBootstrap) or is not (otherwise) StageBootstrap.
testTargetsOf(mods, inBootstrap) ==
    LET idx == SelectSeq(VisitAllModulesIf(mods, {"goPackage", "goBinary"}),
                         LAMBDA i : /\ mods[i].testArchiveFile # ""
                                    /\ (mods[i].buildStage = StageBootstrap) = inBootstrap)
    IN  [k \in 1..Len(idx) |-> mods[idx[k]].testArchiveFile]

\* The binary paths all collected as bootstrap-level, whatever the stage.
binaryPathsAllBootstrap(mods, inBootstrap) ==
    LET idx == VisitAllModulesIf(mods, {"goBinary"})
    IN  IF inBootstrap THEN [k \in 1..Len(idx) |-> Join(<<"$BinDir", mods[idx[k]].name>>)]
        ELSE <<>>

\* The binary paths the first VisitAllModulesIf collects, split the same way.
binaryPathsOf(mods, inBootstrap) ==
    LET idx == SelectSeq(VisitAllModulesIf(mods, {"goBinary"}),
                         LAMBDA i : (mods[i].buildStage = StageBootstrap) = inBootstrap)
    IN  [k \in 1..Len(idx) |-> Join(<<"$BinDir", mods[idx[k]].name>>)]

\* rebootstrapDeps as it stands at the switch on the stage.
rebootstrapDepsOf(mods, cfg) ==
    binaryPathsOf(mods, TRUE) \o <<topLevelBlueprintsOf(cfg)>> \o testTargetsOf(mods, TRUE)

\* primaryRebootstrapDeps holding the bootstrap-level dependencies.
primaryRebootstrapDepsAsBootstrapLevel(mods, cfg) == rebootstrapDepsOf(mods, cfg)

\* primaryRebootstrapDeps as it stands at the switch on the stage.
primaryRebootstrapDepsOf(mods, cfg) ==
    binaryPathsOf(mods, FALSE) \o <<topLevelBlueprintsOf(cfg), docsFileOf(mods)>>
    \o testTargetsOf(mods, FALSE)

runTestsArgs(cfg) == IF cfg.runGoTests THEN {<<"runTests", "-t">>} ELSE {}

\* The default case reached only from three flagged binaries on.
moreThanTwoPrimaryBuilders(primaryBuilders) == Len(primaryBuilders) > 2

\* The default case of the switch on len(primaryBuilders).
multiplePrimaryBuilders(primaryBuilders) == Len(primaryBuilders) > 1

\* The final ctx.Build with the primary fragment as its input.
bootstrapActionFromPrimaryFragment ==
    BuildParams("bootstrap", <<"$buildDir/build.ninja">>, <<primaryBuilderNinjaFile>>,
                <<"$bootstrapCmd">>, <<>>, {})

\* The final ctx.Build of singleton.GenerateBuildActions.
bootstrapAction ==
    BuildParams("bootstrap", <<"$buildDir/build.ninja">>, <<buildNinjaIn>>,
                <<"$bootstrapCmd">>, <<>>, {})

\* case StageBootstrap
singletonBootstrapStage(mods, cfg) ==
    [rules |->
        <<[name |-> "primarybp",
           Command |-> minibpFile \o " --build-primary $runTests -m $bootstrapManifest "
                       \o "--timestamp $timestamp --timestampdep $timestampdep "
                       \o "-b $buildDir -d $outfile.d -o $outfile $in"],
          [name |-> "minibp",
           Command |-> minibpFile \o " $runTests -m $bootstrapManifest "
                       \o "-b $buildDir -d $out.d -o $out $in"]>>,
     actions |->
        <<BuildParams("primarybp",
                      <<primaryBuilderNinjaFile, primaryBuilderNinjaTimestampFile>>,
                      <<topLevelBlueprintsOf(cfg)>>, rebootstrapDepsOf(mods, cfg), <<>>,
                      {<<"outfile", primaryBuilderNinjaFile>>,
                       <<"timestamp", primaryBuilderNinjaTimestampFile>>,
                       <<"timestampdep", primaryBuilderNinjaTimestampDepFile>>}
                      \cup runTestsArgs(cfg)),
          BuildParams("minibp", <<bootstrapNinjaFile>>, <<topLevelBlueprintsOf(cfg)>>,
                      <<"$bootstrapManifest", minibpFile>>, <<>>, runTestsArgs(cfg)),
          BuildParams("blueprint.Phony", <<notAFile>>, <<>>, <<>>, <<>>, {}),
          BuildParams("chooseStage", <<buildNinjaIn>>,
                      <<bootstrapNinjaFile, primaryBuilderNinjaFile>>,
                      <<"$chooseStageCmd", "$bootstrapManifest", notAFile>>, <<>>,
                      {<<"current", bootstrapNinjaFile>>})>>]

\* case StagePrimary
singletonPrimaryStage(mods, cfg) ==
    LET primaryBuilderFile == Join(<<"$BinDir", primaryBuilderNameOf(mods)>>)
        extraFlags         == primaryBuilderExtraFlagsOf(mods, cfg)
    IN
    [rules |->
        <<[name |-> "bigbp",
           Command |-> primaryBuilderFile \o " " \o extraFlags \o " -m $bootstrapManifest "
                       \o "--timestamp $timestamp --timestampdep $timestampdep "
                       \o "-b $buildDir -d $outfile.d -o $outfile $in"],
          [name |-> "bigbpDocs",
           Command |-> primaryBuilderFile \o " " \o extraFlags \o " -b $buildDir --docs $out "
                       \o topLevelBlueprintsOf(cfg)]>>,
     actions |->
        <<BuildParams("bigbp", <<mainNinjaFile, mainNinjaTimestampFile>>,
                      <<topLevelBlueprintsOf(cfg)>>, primaryRebootstrapDepsOf(mods, cfg),
                      <<>>,
                      {<<"timestamp", mainNinjaTimestampFile>>,
                       <<"timestampdep", mainNinjaTimestampDepFile>>,
                       <<"outfile", mainNinjaFile>>}),
          BuildParams("bigbpDocs", <<docsFileOf(mods)>>, <<>>, <<primaryBuilderFile>>,
                      <<>>, {}),
          BuildParams("touch", <<primaryBuilderNinjaTimestampFile>>, <<>>,
                      rebootstrapDepsOf(mods, cfg), <<>>,
                      {<<"depfile", primaryBuilderNinjaTimestampDepFile>>,
                       <<"generator", "true">>}),
          BuildParams("blueprint.Phony", <<notAFile>>, <<>>, <<>>, <<>>, {}),
          BuildParams("chooseStage", <<buildNinjaIn>>,
                      <<bootstrapNinjaFile, primaryBuilderNinjaFile, mainNinjaFile>>,
                      <<"$chooseStageCmd", "$bootstrapManifest", notAFile,
                        primaryBuilderNinjaTimestampFile>>, <<>>,
                      {<<"current", primaryBuilderNinjaFile>>}),
          BuildParams("blueprint.Phony", <<bootstrapNinjaFile>>, <<>>, <<>>, <<>>, {})>>]

\* case StageMain
singletonMainStage(mods, cfg) ==
    LET primaryBuilderName == primaryBuilderNameOf(mods)
        primaryBuilderFile == Join(<<"$BinDir", primaryBuilderName>>)
    IN
    [rules |-> <<>>,
     actions |->
        <<BuildParams("touch", <<primaryBuilderNinjaTimestampFile>>, <<>>,
                      rebootstrapDepsOf(mods, cfg), <<>>,
                      {<<"depfile", primaryBuilderNinjaTimestampDepFile>>,
                       <<"generator", "true">>}),
          BuildParams("touch", <<mainNinjaTimestampFile>>, <<>>,
                      primaryRebootstrapDepsOf(mods, cfg), <<>>,
                      {<<"depfile", mainNinjaTimestampDepFile>>,
                       <<"generator", "true">>}),
          BuildParams("chooseStage", <<buildNinjaIn>>,
                      <<bootstrapNinjaFile, primaryBuilderNinjaFile, mainNinjaFile>>,
                      <<"$chooseStageCmd", "$bootstrapManifest",
                        primaryBuilderNinjaTimestampFile, mainNinjaTimestampFile>>, <<>>,
                      {<<"current", mainNinjaFile>>, <<"generator", "true">>}),
          BuildParams("blueprint.Phony", <<mainNinjaFile, docsFileOf(mods)>>, <<>>, <<>>,
                      <<>>, {})>>
        \o (IF primaryBuilderName = "minibp"
            THEN <<BuildParams("cp", <<Join(<<"$buildDir", "bin", primaryBuilderName>>)>>,
                               <<primaryBuilderFile>>, <<>>, <<>>, {})>>
            ELSE <<>>)]

\* singleton.GenerateBuildActions
singletonGenerate(mods, cfg) ==
    LET primaryBuilders == primaryBuildersOf(mods) IN
    IF multiplePrimaryBuilders(primaryBuilders)
    \* the return of the default case: the lists hold the binaries only
    THEN [rules   |-> <<>>,
          actions |-> <<>>,
          rebootstrapDeps        |-> binaryPathsOf(mods, TRUE),
          primaryRebootstrapDeps |-> binaryPathsOf(mods, FALSE),
          errors  |->
             <<[module |-> "", msg |-> "multiple primary builder modules present:"]>>
             \o [k \in 1..Len(primaryBuilders) |->
                    [module |-> mods[primaryBuilders[k]].name,
                     msg |-> "<-- module " \o mods[primaryBuilders[k]].name]]]
    ELSE
    LET staged == IF cfg.stage = StageBootstrap THEN singletonBootstrapStage(mods, cfg)
                  ELSE IF cfg.stage = StagePrimary THEN singletonPrimaryStage(mods, cfg)
                  ELSE singletonMainStage(mods, cfg)
    IN  [rules   |-> staged.rules,
         actions |-> staged.actions \o <<bootstrapAction>>,
         rebootstrapDeps        |-> rebootstrapDepsOf(mods, cfg),
         primaryRebootstrapDeps |-> primaryRebootstrapDepsOf(mods, cfg),
         errors  |-> <<>>]

-----------------------------------------------------------------------------
(* The generation as a state machine: the early mutator pass, the top-down *)
(* mutator pass, the modules' GenerateBuildActions in dependency order,    *)
(* the singleton's GenerateBuildActions.                                    *)

Slots == 1..Len(modules)

NoActions == [i \in Slots |-> <<>>]

\* The configurations: the top-level file is given by a path, as on the
\* command line.
Configs == [stage : Stages, runGoTests : BOOLEAN, topLevelBlueprintsFile : {"src/Blueprints"}]

\* The module graphs of the model: every graph over FullNames, and the
\* plain graphs over all of ModuleNames.
Graphs ==
    {g \in UNION {FullGraphs(n) : n \in 1..Len(FullNames)} \cup PlainGraphs(Len(ModuleNames)) :
        Acyclic(g)}

Init ==
    /\ config \in Configs
    /\ modules \in Graphs
    /\ primaryBuilderPlugins = <<>>
    /\ phase = "earlyMutator"
    /\ visited = {}
    /\ moduleActions = [i \in 1..Len(modules) |-> <<>>]
    /\ moduleErrors = [i \in 1..Len(modules) |-> <<>>]
    /\ singletonActions = <<>>
    /\ singletonRules = <<>>
    /\ singletonErrors = <<>>
    /\ rebootstrapDeps = <<>>
    /\ primaryRebootstrapDeps = <<>>
    /\ run = 1
    /\ prevActions = <<>>

\* The pass moves on once it has handled every module.
Advance(i, next) ==
    IF visited \cup {i} = Slots
    THEN phase' = next /\ visited' = {}
    ELSE phase' = phase /\ visited' = visited \cup {i}

\* primaryBuilderPluginFinder appending the package path of the module.
pluginsAfterFinderByPkgPath(plugins, m) ==
    IF m.kind = "goPackage" /\ m.Plugin THEN Append(plugins, m.PkgPath) ELSE plugins

\* primaryBuilderPluginFinder on module i
pluginsAfterFinder(plugins, m) ==
    IF m.kind = "goPackage" /\ m.Plugin THEN Append(plugins, m.name) ELSE plugins

\* The early mutator pass visits the modules in declaration order.
PrimaryBuilderPluginFinder(i) ==
    /\ phase = "earlyMutator"
    /\ i \notin visited
    /\ \A j \in Slots : j < i => j \in visited
    /\ primaryBuilderPlugins' = pluginsAfterFinder(primaryBuilderPlugins, modules[i])
    /\ Advance(i, "topDownMutator")
    /\ UNCHANGED <<config, modules, moduleActions, moduleErrors, singletonActions,
                   singletonRules, singletonErrors, rebootstrapDeps,
                   primaryRebootstrapDeps, run, prevActions>>

\* propagateStageBootstrap on module i: the graph after the call
modulesAfterPropagate(mods, plugins, i) ==
    IF ~isBootstrapGoCore(mods[i]) \/ mods[i].buildStage # StageBootstrap
    THEN mods
    ELSE [j \in 1..Len(mods) |->
            IF j \in Range(DirectDeps(mods, plugins, i)) /\ isBootstrapGoCore(mods[j])
            THEN [mods[j] EXCEPT !.buildStage = StageBootstrap]
            ELSE mods[j]]

\* A top-down mutator visits a module after all the modules that depend on it.
TopDownReady(i) ==
    /\ i \notin visited
    /\ Dependents(modules, primaryBuilderPlugins, i) \subseteq visited

PropagateStageBootstrap(i) ==
    /\ phase = "topDownMutator"
    /\ TopDownReady(i)
    /\ modules' = modulesAfterPropagate(modules, primaryBuilderPlugins, i)
    /\ Advance(i, "generate")
    /\ UNCHANGED <<config, primaryBuilderPlugins, moduleActions, moduleErrors,
                   singletonActions, singletonRules, singletonErrors, rebootstrapDeps,
                   primaryRebootstrapDeps, run, prevActions>>

\* GenerateBuildActions runs on a module after all of its dependencies.
GenerateReady(i) ==
    /\ i \notin visited
    /\ Range(DirectDeps(modules, primaryBuilderPlugins, i)) \subseteq visited

\* The state after module i's GenerateBuildActions returned `res`.
Generated(i, res) ==
    /\ modules' = [modules EXCEPT ![i] = res.module]
    /\ moduleActions' = [moduleActions EXCEPT ![i] = res.actions]
    /\ moduleErrors' = [moduleErrors EXCEPT ![i] = res.errors]
    /\ Advance(i, "singleton")
    /\ UNCHANGED <<config, primaryBuilderPlugins, singletonActions, singletonRules,
                   singletonErrors, rebootstrapDeps, primaryRebootstrapDeps, run,
                   prevActions>>

GoPackageGenerateBuildActions(i) ==
    /\ phase = "generate"
    /\ GenerateReady(i)
    /\ modules[i].kind = "goPackage"
    /\ Generated(i, goPackageGenerate(modules, primaryBuilderPlugins, config, i))

GoBinaryGenerateBuildActions(i) ==
    /\ phase = "generate"
    /\ GenerateReady(i)
    /\ modules[i].kind = "goBinary"
    /\ Generated(i, goBinaryGenerate(modules, primaryBuilderPlugins, config, i))

\* A module of another type emits nothing this file knows of.
OtherGenerateBuildActions(i) ==
    /\ phase = "generate"
    /\ GenerateReady(i)
    /\ modules[i].kind = "other"
    /\ Generated(i, [module |-> modules[i], actions |-> <<>>, errors |-> <<>>])

SingletonGenerateBuildActions ==
    /\ phase = "singleton"
    /\ LET res == singletonGenerate(modules, config) IN
        /\ singletonActions' = res.actions
        /\ singletonRules' = res.rules
        /\ singletonErrors' = res.errors
        /\ rebootstrapDeps' = res.rebootstrapDeps
        /\ primaryRebootstrapDeps' = res.primaryRebootstrapDeps
    /\ phase' = "done"
    /\ UNCHANGED <<config, modules, primaryBuilderPlugins, visited, moduleActions,
                   moduleErrors, run, prevActions>>

\* The factories run again on the same declarations.
reinstantiate(m) ==
    [m EXCEPT !.buildStage = m.factoryStage, !.pkgRoot = "", !.archiveFile = "",
              !.testArchiveFile = ""]

\* A further generation on the same graph and configuration in the same
\* process: the descriptors are built anew, the package-level plugin list
\* keeps what it holds.
Regenerate ==
    /\ phase = "done"
    /\ run < MaxRuns
    /\ run' = run + 1
    /\ prevActions' = moduleActions
    /\ modules' = [i \in Slots |-> reinstantiate(modules[i])]
    /\ moduleActions' = NoActions
    /\ moduleErrors' = NoActions
    /\ singletonActions' = <<>>
    /\ singletonRules' = <<>>
    /\ singletonErrors' = <<>>
    /\ rebootstrapDeps' = <<>>
    /\ primaryRebootstrapDeps' = <<>>
    /\ phase' = "earlyMutator"
    /\ visited' = {}
    /\ UNCHANGED <<config, primaryBuilderPlugins>>

Next ==
    \/ \E i \in Slots : PrimaryBuilderPluginFinder(i)
    \/ \E i \in Slots : PropagateStageBootstrap(i)
    \/ \E i \in Slots : GoPackageGenerateBuildActions(i)
    \/ \E i \in Slots : GoBinaryGenerateBuildActions(i)
    \/ \E i \in Slots : OtherGenerateBuildActions(i)
    \/ SingletonGenerateBuildActions
    \/ Regenerate

Spec == Init /\ [][Next]_vars

-----------------------------------------------------------------------------
(* Vocabulary of the properties. *)

PropagationDone == phase \in {"generate", "singleton", "done"}

\* Module i's GenerateBuildActions has returned in this generation.
HasGenerated(i) == phase \in {"singleton", "done"} \/ (phase = "generate" /\ i \in visited)

CarriesStage(i) == modules[i].kind \in {"goPackage", "goBinary"}

\* The argument map of an action: whether it sets key, and to what.
HasArg(a, key) == \E kv \in a.Args : kv[1] = key
ArgOf(a, key) == (CHOOSE kv \in a.Args : kv[1] = key)[2]

\* C1 as stated: after the propagation pass, every direct or transitive
\* dependency of a Bootstrap-stage module that carries a stage is in stage
\* Bootstrap.
C1_AllTransitiveDepsBootstrap ==
    PropagationDone =>
        \A i \in Slots :
            (CarriesStage(i) /\ modules[i].buildStage = StageBootstrap) =>
                \A j \in TransDeps(modules, primaryBuilderPlugins, i) :
                    CarriesStage(j) => modules[j].buildStage = StageBootstrap

\* The goBinary modules with the PrimaryBuilder flag set.
FlaggedBinaries == {i \in Slots : modules[i].kind = "goBinary" /\ modules[i].PrimaryBuilder}

\* C2: with two or more flagged binaries the singleton reports a
\* configuration error naming every flagged module and emits no action at
\* all (no stage chooser, no terminal action); with at most one flagged
\* binary it reports no error.
C2_MultiplePrimaryBuilders ==
    phase = "done" =>
        IF Cardinality(FlaggedBinaries) >= 2
        THEN /\ singletonActions = <<>>
             /\ singletonRules = <<>>
             /\ singletonErrors # <<>>
             /\ \A i \in FlaggedBinaries :
                    \E k \in 1..Len(singletonErrors) :
                        singletonErrors[k].module = modules[i].name
             /\ \A k \in 1..Len(singletonErrors) :
                    singletonErrors[k].module \in
                        {""} \cup {modules[i].name : i \in FlaggedBinaries}
        ELSE singletonErrors = <<>>

\* C2 witness: a finished generation over two flagged binaries.
C2_Witness ==
    /\ phase = "done"
    /\ Cardinality(FlaggedBinaries) >= 2
    /\ Len(singletonErrors) = 3

\* A goPackage whose package identifier is empty.
Faulty(i) == modules[i].kind = "goPackage" /\ modules[i].PkgPath = ""

\* After its GenerateBuildActions a faulty package has one error, no action
\* and no derived path.
C3_FaultyState ==
    \A i \in Slots :
        (Faulty(i) /\ HasGenerated(i)) =>
            /\ Len(moduleErrors[i]) = 1
            /\ moduleActions[i] = <<>>
            /\ modules[i].pkgRoot = ""
            /\ modules[i].archiveFile = ""
            /\ modules[i].testArchiveFile = ""

\* The GenerateBuildActions step of a faulty package leaves everything but
\* that module's own errors as it was.
C3_FaultyStep ==
    \A i \in Slots :
        (Faulty(i) /\ phase = "generate" /\ i \notin visited /\ HasGenerated(i)') =>
            /\ modules' = modules
            /\ moduleActions' = moduleActions
            /\ \A j \in Slots \ {i} : moduleErrors'[j] = moduleErrors[j]
            /\ primaryBuilderPlugins' = primaryBuilderPlugins
            /\ config' = config

\* C3: a goPackage with an empty package identifier reports exactly one
\* error, emits no action and keeps pkgRoot, archiveFile and testArchiveFile
\* unset; its GenerateBuildActions changes nothing that the generation of
\* another module reads (descriptors, plugin list, configuration) and none of
\* the other modules' actions or errors.
C3_EmptyPkgPath == []C3_FaultyState /\ [][C3_FaultyStep]_vars

\* C3 witness: a finished generation in which a module that depends on the
\* faulty package has emitted its actions.
C3_Witness ==
    /\ phase = "done"
    /\ \E i, j \in Slots :
        /\ Faulty(i)
        /\ Len(moduleErrors[i]) = 1
        /\ i \in Range(DirectDeps(modules, primaryBuilderPlugins, j))
        /\ moduleActions[j] # <<>>
        /\ Len(modules[i].TestSrcs) > 0 /\ config.runGoTests

RulesOf(i) == {moduleActions[i][k].Rule : k \in 1..Len(moduleActions[i])}

PlaceholderRules == {"phony", "blueprint.Phony"}

\* The emission mode the pair (active stage, module stage) calls for.
ModeOfStages(i) ==
    /\ config.stage = modules[i].buildStage =>
        /\ "compile" \in RulesOf(i)
        /\ modules[i].kind = "goBinary" => {"link", "cp"} \subseteq RulesOf(i)
        /\ RulesOf(i) \cap PlaceholderRules = {}
    /\ (config.stage # modules[i].buildStage /\ config.stage = StageBootstrap) =>
        moduleActions[i] = <<>>
    /\ (config.stage # modules[i].buildStage /\ config.stage # StageBootstrap) =>
        /\ "phony" \in RulesOf(i)
        /\ RulesOf(i) \subseteq PlaceholderRules

\* C4 as stated: every goPackage and goBinary emits in the mode its stage
\* and the active stage call for: equal, real actions and no placeholder;
\* different under Bootstrap, nothing; different otherwise, placeholders only.
C4_ModeByStagesOnly ==
    \A i \in Slots : (CarriesStage(i) /\ HasGenerated(i)) => ModeOfStages(i)

\* C4 amended: the same for every goBinary and for every goPackage whose
\* package identifier is not empty (a goPackage with an empty identifier
\* emits nothing whatever the stages).
C4_ModeByStagesIfValid ==
    \A i \in Slots :
        (CarriesStage(i) /\ ~Faulty(i) /\ HasGenerated(i)) => ModeOfStages(i)

\* C4 witness: one generation holding a module emitted for real and a module
\* emitted as placeholders.
C4_Witness ==
    /\ phase = "done"
    /\ \E i, j \in Slots :
        /\ CarriesStage(i) /\ CarriesStage(j) /\ ~Faulty(i) /\ ~Faulty(j)
        /\ config.stage = modules[i].buildStage
        /\ "compile" \in RulesOf(i)
        /\ config.stage # modules[j].buildStage
        /\ "phony" \in RulesOf(j)

\* The paths the properties expect, spelled out.
SrcPath(i, f) ==
    IF modules[i].dir = "." THEN "$srcDir/" \o f
    ELSE "$srcDir/" \o modules[i].dir \o "/" \o f
SrcPaths(i, files) == [k \in 1..Len(files) |-> SrcPath(i, files[k])]
ModuleOut(i, rest) == "$buildDir/.bootstrap/" \o modules[i].name \o "/" \o rest
TestPassedOf(i) == ModuleOut(i, "test/test.passed")
BinaryFileOf(i) == "$BinDir/" \o modules[i].name
PluginSrcOf(i) == ModuleOut(i, "obj/plugin.go")

\* The actions of the singleton, or of module i, of a rule or with given outputs.
SingletonWithRule(rule) == SelectSeq(singletonActions, LAMBDA a : a.Rule = rule)
ModuleWithRule(i, rule) == SelectSeq(moduleActions[i], LAMBDA a : a.Rule = rule)
ModuleWithOutputs(i, outs) == SelectSeq(moduleActions[i], LAMBDA a : a.Outputs = outs)

\* C5: in a Bootstrap-stage generation with tests enabled the singleton emits
\* a primary-manifest regeneration action whose runTests argument is "-t"
\* and whose dependencies hold the test.passed file of every well-formed
\* Bootstrap-stage module with test sources and of no module of another stage.
C5_RegenDependsOnTestSentinels ==
    (phase = "done" /\ config.stage = StageBootstrap /\ config.runGoTests
        /\ Cardinality(FlaggedBinaries) <= 1) =>
        /\ Len(SingletonWithRule("primarybp")) = 1
        /\ LET a == SingletonWithRule("primarybp")[1] IN
            /\ <<"runTests", "-t">> \in a.Args
            /\ \A i \in Slots :
                (CarriesStage(i) /\ ~Faulty(i) /\ Len(modules[i].TestSrcs) > 0) =>
                    (TestPassedOf(i) \in Range(a.Implicits)
                        <=> modules[i].buildStage = StageBootstrap)

\* The plugin-flagged goPackage modules among module i's dependencies.
PluginDeps(i) ==
    {j \in TransDeps(modules, primaryBuilderPlugins, i) :
        modules[j].kind = "goPackage" /\ modules[j].Plugin}

\* The case of C6: a primary-builder binary of the active stage with exactly
\* one plugin among its dependencies has generated its actions.
C6_Case(i) ==
    /\ modules[i].kind = "goBinary" /\ modules[i].PrimaryBuilder
    /\ HasGenerated(i)
    /\ config.stage = modules[i].buildStage
    /\ Cardinality(PluginDeps(i)) = 1

\* C6: such a binary emits exactly one pluginGenSrc action, whose plugins
\* argument is that plugin's package identifier and whose output is
\* obj/plugin.go, and its compile action takes the declared sources followed
\* by obj/plugin.go.
C6_PluginSource ==
    \A i \in Slots :
        C6_Case(i) =>
            LET p    == CHOOSE j \in PluginDeps(i) : TRUE
                gen  == ModuleWithRule(i, "pluginGenSrc")
                comp == ModuleWithOutputs(i, <<ModuleOut(i, "obj/" \o modules[i].name \o ".a")>>)
            IN  /\ Len(gen) = 1
                /\ gen[1].Outputs = <<PluginSrcOf(i)>>
                /\ gen[1].Args = {<<"plugins", modules[p].PkgPath>>}
                /\ Len(comp) = 1
                /\ comp[1].Rule = "compile"
                /\ comp[1].Inputs = SrcPaths(i, modules[i].Srcs) \o <<PluginSrcOf(i)>>

\* C6 witness: the case, with a plugin that declares a package identifier
\* and a binary with two sources, in a finished generation.
C6_Witness ==
    /\ phase = "done"
    /\ \E i \in Slots :
        /\ C6_Case(i)
        /\ Len(modules[i].Srcs) = 2
        /\ \A j \in PluginDeps(i) : modules[j].PkgPath # ""

\* The case of C7: the graph is one well-formed goPackage of the active
\* stage with two sources and no test sources, and it has generated.
C7_Case ==
    /\ Len(modules) = 1
    /\ modules[1].kind = "goPackage"
    /\ modules[1].PkgPath # ""
    /\ Len(modules[1].Srcs) = 2
    /\ modules[1].TestSrcs = <<>>
    /\ config.stage = modules[1].buildStage
    /\ HasGenerated(1)

\* C7: that module emits exactly one action, a compile action whose inputs
\* are the two path-qualified sources, with no incFlags argument and no
\* order-only dependency, with tests enabled or not.
C7_SinglePackage ==
    C7_Case =>
        /\ Len(moduleActions[1]) = 1
        /\ moduleActions[1][1].Rule = "compile"
        /\ moduleActions[1][1].Inputs = SrcPaths(1, modules[1].Srcs)
        /\ ~HasArg(moduleActions[1][1], "incFlags")
        /\ moduleActions[1][1].OrderOnly = <<>>

\* C7 witness: the case in a finished generation with tests enabled.
C7_Witness == C7_Case /\ phase = "done" /\ config.runGoTests

\* Module i has been emitted in placeholder mode.
InPlaceholderMode(i) ==
    /\ CarriesStage(i) /\ ~Faulty(i) /\ HasGenerated(i)
    /\ config.stage # modules[i].buildStage
    /\ config.stage # StageBootstrap

\* The output of module i's placeholder action.
PlaceholderTarget(i) ==
    IF modules[i].kind = "goBinary" THEN BinaryFileOf(i)
    ELSE ModuleOut(i, "pkg/" \o modules[i].PkgPath \o ".a")

\* The generated sources of module i.
GeneratedSrcs(i) ==
    IF modules[i].kind = "goBinary" /\ modules[i].PrimaryBuilder
        /\ primaryBuilderPlugins # <<>>
    THEN <<PluginSrcOf(i)>> ELSE <<>>

\* Module i emits exactly one marker action whose only output is path, or
\* several identical ones when the path is listed several times.
HasMarker(i, path) ==
    \E k \in 1..Len(moduleActions[i]) :
        /\ moduleActions[i][k].Rule = "blueprint.Phony"
        /\ moduleActions[i][k].Outputs = <<path>>

\* C8: of a module emitted in placeholder mode, every declared source
\* (path-qualified) and every generated source is an input of the module's
\* placeholder action and the sole output of a marker action of its own.
C8_SourcesTracked ==
    \A i \in Slots :
        InPlaceholderMode(i) =>
            LET ph == SelectSeq(moduleActions[i],
                        LAMBDA a : a.Rule = "phony" /\ a.Outputs = <<PlaceholderTarget(i)>>)
            IN  /\ Len(ph) = 1
                /\ \A path \in Range(SrcPaths(i, modules[i].Srcs)) \cup Range(GeneratedSrcs(i)) :
                    /\ path \in Range(ph[1].Inputs)
                    /\ HasMarker(i, path)

\* C8 witness: a primary-builder binary with two sources and a generated
\* plugin source has been emitted in placeholder mode.
C8_Witness ==
    \E i \in Slots :
        /\ InPlaceholderMode(i)
        /\ Len(modules[i].Srcs) = 2
        /\ GeneratedSrcs(i) # <<>>
        /\ phase = "done"

Placeholders(actions) == SelectSeq(actions, LAMBDA a : a.Rule \in PlaceholderRules)

\* C9: a second generation on the same graph and configuration, the plugin
\* finder having run again, gives every module the placeholder and marker
\* actions of the first, in the same order.
C9_PlaceholdersIdempotent ==
    (phase = "done" /\ run >= 2) =>
        \A i \in Slots : Placeholders(moduleActions[i]) = Placeholders(prevActions[i])

\* C9 witness: a second generation has finished, the plugin list holds its
\* entries twice, and a primary-builder binary was emitted in placeholder
\* mode with its generated source.
C9_Witness ==
    /\ phase = "done" /\ run = 2
    /\ Len(primaryBuilderPlugins) = 2 * Len(PluginNames(modules))
    /\ \E i \in Slots :
        /\ InPlaceholderMode(i)
        /\ GeneratedSrcs(i) # <<>>
        /\ Len(Placeholders(moduleActions[i])) >= 4

\* The fragment the stage chooser is told is current in each stage.
CurrentFragment ==
    IF config.stage = StageBootstrap THEN "$buildDir/.bootstrap/bootstrap.ninja.in"
    ELSE IF config.stage = StagePrimary THEN "$buildDir/.bootstrap/primary.ninja.in"
    ELSE "$buildDir/.bootstrap/main.ninja.in"

\* C10: with at most one flagged binary the singleton emits, in every stage,
\* exactly one action producing the final manifest, whose only input is
\* build.ninja.in, and exactly one chooseStage action, whose output is
\* build.ninja.in and whose current argument is the active stage's fragment.
C10_TerminalAndChooser ==
    (phase = "done" /\ Cardinality(FlaggedBinaries) <= 1) =>
        LET final   == SelectSeq(singletonActions,
                          LAMBDA a : "$buildDir/build.ninja" \in Range(a.Outputs))
            chooser == SingletonWithRule("chooseStage")
        IN  /\ Len(SingletonWithRule("bootstrap")) = 1
            /\ Len(final) = 1
            /\ final[1].Rule = "bootstrap"
            /\ final[1].Outputs = <<"$buildDir/build.ninja">>
            /\ final[1].Inputs = <<"$buildDir/.bootstrap/build.ninja.in">>
            /\ Len(chooser) = 1
            /\ chooser[1].Outputs = <<"$buildDir/.bootstrap/build.ninja.in">>
            /\ HasArg(chooser[1], "current")
            /\ ArgOf(chooser[1], "current") = CurrentFragment

\* C10 witness: a finished Main-stage generation with one flagged binary.
C10_Witness ==
    /\ phase = "done"
    /\ config.stage = StageMain
    /\ Cardinality(FlaggedBinaries) = 1
    /\ Len(singletonActions) >= 5

\* The singleton's action copying the fallback builder $BinDir/minibp into
\* the final bin directory.
CopiesFallbackBuilder ==
    \E k \in 1..Len(singletonActions) :
        /\ singletonActions[k].Rule = "cp"
        /\ singletonActions[k].Inputs = <<"$BinDir/minibp">>
        /\ singletonActions[k].Outputs = <<"$buildDir/bin/minibp">>

\* C11 as stated: a finished generation holds the copy of the fallback
\* builder if and only if the active stage is Main and no goBinary has the
\* PrimaryBuilder flag set.
C11_CopyIffNoPrimaryBuilder ==
    phase = "done" =>
        (CopiesFallbackBuilder <=> (config.stage = StageMain /\ FlaggedBinaries = {}))

\* The paths of module i's test pipeline and of its own archive.
TestPkgArchiveOf(i) ==
    IF modules[i].kind = "goBinary" THEN ModuleOut(i, "test/" \o modules[i].name \o ".a")
    ELSE ModuleOut(i, "test/" \o modules[i].PkgPath \o ".a")
TestMainSrcOf(i) == ModuleOut(i, "test/test.go")
TestMainArchiveOf(i) == ModuleOut(i, "test/test.a")
TestExecutableOf(i) == ModuleOut(i, "test/test")
OwnArchiveOf(i) ==
    IF modules[i].kind = "goBinary" THEN ModuleOut(i, "obj/" \o modules[i].name \o ".a")
    ELSE ModuleOut(i, "pkg/" \o modules[i].PkgPath \o ".a")
TestOutputsOf(i) ==
    {TestPkgArchiveOf(i), TestMainSrcOf(i), TestMainArchiveOf(i), TestExecutableOf(i),
     TestPassedOf(i)}

\* An action of the test pipeline: a test rule, or an output under test/.
IsTestAction(i, a) ==
    a.Rule \in {"gotestmain", "test"} \/ Range(a.Outputs) \cap TestOutputsOf(i) # {}

TestActions(i) == SelectSeq(moduleActions[i], LAMBDA a : IsTestAction(i, a))
NonTestActions(i) == SelectSeq(moduleActions[i], LAMBDA a : ~IsTestAction(i, a))

\* Every path an action depends on.
DepsOf(a) == Range(a.Inputs) \cup Range(a.Implicits) \cup Range(a.OrderOnly)

\* The case of C12 as stated: tests are enabled and a module of the active
\* stage with test sources has generated its actions.
C12_CaseAsStated(i) ==
    /\ CarriesStage(i) /\ HasGenerated(i)
    /\ config.runGoTests
    /\ Len(modules[i].TestSrcs) > 0
    /\ config.stage = modules[i].buildStage

\* The case of C12 amended: the same, of a goBinary or of a goPackage that
\* has a package identifier.
C12_Case(i) == C12_CaseAsStated(i) /\ ~Faulty(i)

\* The five actions of the pipeline, chained output to input.
C12_Pipeline(i) ==
    LET t == TestActions(i) IN
    /\ Len(t) = 5
    /\ t[1].Rule = "compile" /\ t[1].Outputs = <<TestPkgArchiveOf(i)>>
    /\ t[1].Inputs = SrcPaths(i, modules[i].Srcs \o modules[i].TestSrcs) \o GeneratedSrcs(i)
    /\ t[2].Rule = "gotestmain" /\ t[2].Outputs = <<TestMainSrcOf(i)>>
    /\ t[2].Inputs = SrcPaths(i, modules[i].TestSrcs)
    /\ t[3].Rule = "compile" /\ t[3].Outputs = <<TestMainArchiveOf(i)>>
    /\ t[3].Inputs = <<TestMainSrcOf(i)>>
    /\ TestPkgArchiveOf(i) \in Range(t[3].Implicits)
    /\ t[4].Rule = "link" /\ t[4].Outputs = <<TestExecutableOf(i)>>
    /\ t[4].Inputs = <<TestMainArchiveOf(i)>>
    /\ t[5].Rule = "test" /\ t[5].Outputs = <<TestPassedOf(i)>>
    /\ t[5].Inputs = <<TestExecutableOf(i)>>

\* The module's other actions see the pipeline through one edge only: the
\* compile action of its own archive is ordered after test.passed.
C12_OnlySentinelExposed(i) ==
    LET rest == NonTestActions(i)
        own  == SelectSeq(rest, LAMBDA a : a.Outputs = <<OwnArchiveOf(i)>>)
    IN  /\ Len(own) = 1
        /\ own[1].Rule = "compile"
        /\ own[1].OrderOnly = <<TestPassedOf(i)>>
        /\ \A k \in 1..Len(rest) :
            /\ (Range(rest[k].Inputs) \cup Range(rest[k].Implicits)) \cap TestOutputsOf(i) = {}
            /\ rest[k].Outputs # <<OwnArchiveOf(i)>> => rest[k].OrderOnly = <<>>

\* With tests disabled or without test sources a module emits no test action
\* and none of its actions has an order-only dependency.
C12_NoPipeline(i) ==
    (CarriesStage(i) /\ HasGenerated(i)
        /\ (~config.runGoTests \/ Len(modules[i].TestSrcs) = 0)) =>
        /\ TestActions(i) = <<>>
        /\ \A k \in 1..Len(moduleActions[i]) : moduleActions[i][k].OrderOnly = <<>>

\* C12 as stated: with tests enabled, every module of the active stage that
\* has test sources emits exactly five test actions (combined test archive,
\* test-main source, test-main archive, test executable, test run writing
\* test.passed), each taking the previous one's output, and its own compile
\* action is ordered after test.passed and depends on no other file of the
\* pipeline; with tests disabled or without test sources a module emits no
\* test action and none of its actions has an order-only dependency.
C12_TestPipelineOfEveryModule ==
    \A i \in Slots :
        /\ C12_CaseAsStated(i) => (C12_Pipeline(i) /\ C12_OnlySentinelExposed(i))
        /\ C12_NoPipeline(i)

\* C12 amended: the same, the first half for every goBinary and for every
\* goPackage whose package identifier is not empty (a goPackage with an
\* empty identifier emits nothing, tests or not).
C12_TestPipeline ==
    \A i \in Slots :
        /\ C12_Case(i) => (C12_Pipeline(i) /\ C12_OnlySentinelExposed(i))
        /\ C12_NoPipeline(i)

\* C12 witness: a finished generation with tests enabled in which a primary
\* builder with a generated source ran its test pipeline and another module
\* of the active stage, without test sources, compiled without it.
C12_Witness ==
    /\ phase = "done"
    /\ \E i, j \in Slots :
        /\ C12_Case(i) /\ GeneratedSrcs(i) # <<>> /\ Len(TestActions(i)) = 5
        /\ CarriesStage(j) /\ ~Faulty(j) /\ modules[j].TestSrcs = <<>>
        /\ config.stage = modules[j].buildStage
        /\ moduleActions[j] # <<>>

\* A module whose GoTestTarget() is set once it has generated.
HasTestTarget(i) ==
    CarriesStage(i) /\ ~Faulty(i) /\ config.runGoTests /\ Len(modules[i].TestSrcs) > 0

\* The bootstrap-level dependency set: the binaries of the goBinary modules in
\* stage Bootstrap, the top-level Blueprints file and the test targets of the
\* modules in stage Bootstrap.
BootstrapLevelDeps ==
    {BinaryFileOf(i) : i \in {j \in Slots : modules[j].kind = "goBinary"
                                             /\ modules[j].buildStage = StageBootstrap}}
    \cup {"$srcDir/Blueprints"}
    \cup {TestPkgArchiveOf(i) : i \in {j \in Slots : HasTestTarget(j)
                                             /\ modules[j].buildStage = StageBootstrap}}

\* The documentation file of the primary builder.
DocsFile ==
    IF FlaggedBinaries = {} THEN "$buildDir/.bootstrap/docs/minibp.html"
    ELSE "$buildDir/.bootstrap/docs/"
            \o modules[CHOOSE i \in FlaggedBinaries : TRUE].name \o ".html"

\* The primary-level dependency set: the same for the other stages, and the
\* documentation file.
PrimaryLevelDeps ==
    {BinaryFileOf(i) : i \in {j \in Slots : modules[j].kind = "goBinary"
                                             /\ modules[j].buildStage # StageBootstrap}}
    \cup {"$srcDir/Blueprints", DocsFile}
    \cup {TestPkgArchiveOf(i) : i \in {j \in Slots : HasTestTarget(j)
                                             /\ modules[j].buildStage # StageBootstrap}}

PrimaryTimestamp == "$buildDir/.bootstrap/primary.ninja.in.timestamp"
MainTimestamp == "$buildDir/.bootstrap/main.ninja.in.timestamp"

\* The singleton's actions that declare path as an output.
SingletonProducing(path) ==
    SelectSeq(singletonActions, LAMBDA a : path \in Range(a.Outputs))

\* path is the sole output of exactly one singleton action, a touch action
\* whose dependencies are exactly deps.
TouchedAgainst(path, deps) ==
    /\ Len(SingletonProducing(path)) = 1
    /\ SingletonProducing(path)[1].Rule = "touch"
    /\ SingletonProducing(path)[1].Outputs = <<path>>
    /\ DepsOf(SingletonProducing(path)[1]) = deps

\* The stage chooser depends on path.
ChooserDependsOn(path) ==
    \E k \in 1..Len(singletonActions) :
        /\ singletonActions[k].Rule = "chooseStage"
        /\ path \in DepsOf(singletonActions[k])

\* What C13 asks of the singleton's actions in each stage.
TimestampsOfStage ==
    /\ config.stage \in {StagePrimary, StageMain} =>
        /\ TouchedAgainst(PrimaryTimestamp, BootstrapLevelDeps)
        /\ ChooserDependsOn(PrimaryTimestamp)
    /\ config.stage = StagePrimary => Len(SingletonWithRule("touch")) = 1
    /\ config.stage = StageMain =>
        /\ TouchedAgainst(MainTimestamp, PrimaryLevelDeps)
        /\ ChooserDependsOn(MainTimestamp)
        /\ Len(SingletonWithRule("touch")) = 2
    /\ config.stage = StageBootstrap =>
        /\ SingletonWithRule("touch") = <<>>
        /\ Len(SingletonProducing(PrimaryTimestamp)) = 1
        /\ SingletonProducing(PrimaryTimestamp)[1].Rule = "primarybp"

\* C13 as stated: in every finished Primary-stage or Main-stage generation
\* the primary timestamp is the output of a touch action depending on exactly
\* the bootstrap-level set and the stage chooser depends on it; in Main stage
\* the main timestamp is likewise touched against exactly the primary-level
\* set and the chooser depends on both; in Bootstrap stage there is no touch
\* action and the primary timestamp is an output of the primarybp action.
C13_TimestampsInEveryGeneration == phase = "done" => TimestampsOfStage

\* C13 amended: the same for every generation over a graph with at most one
\* flagged goBinary (with several the singleton reports them and emits no
\* action at all).
C13_Timestamps ==
    (phase = "done" /\ Cardinality(FlaggedBinaries) <= 1) => TimestampsOfStage

\* C13 witness: a finished Main-stage generation with tests enabled over a
\* Bootstrap-stage binary and a binary of a later stage, one of them with
\* test sources.
C13_Witness ==
    /\ phase = "done" /\ config.stage = StageMain /\ config.runGoTests
    /\ Cardinality(FlaggedBinaries) <= 1
    /\ \E i, j \in Slots :
        /\ modules[i].kind = "goBinary" /\ modules[i].buildStage = StageBootstrap
        /\ modules[j].kind = "goBinary" /\ modules[j].buildStage # StageBootstrap
        /\ HasTestTarget(j)
    /\ Len(SingletonWithRule("touch")) = 2

\* The plugin-discovery pass of the current generation is over.
DiscoveryDone == phase # "earlyMutator"

\* The slots of the goPackage modules with the Plugin flag set, in the order
\* the discovery pass visits them.
FlaggedPackages ==
    SelectSeq([i \in 1..Len(modules) |-> i],
              LAMBDA i : modules[i].kind = "goPackage" /\ modules[i].Plugin)

FlaggedPkgPaths == [k \in 1..Len(FlaggedPackages) |-> modules[FlaggedPackages[k]].PkgPath]
FlaggedNames == [k \in 1..Len(FlaggedPackages) |-> modules[FlaggedPackages[k]].name]

RECURSIVE Repeat(_, _)
\* s, n times over.
Repeat(s, n) == IF n = 0 THEN <<>> ELSE Repeat(s, n - 1) \o s

\* The dynamic dependencies are the plugin list for a flagged goBinary, which
\* thereby depends on every flagged package, and empty for any other.
DynamicDepsArePluginList ==
    \A i \in Slots :
        modules[i].kind = "goBinary" =>
            IF modules[i].PrimaryBuilder
            THEN /\ DynamicDependencies(modules[i], primaryBuilderPlugins)
                        = primaryBuilderPlugins
                 /\ Range(FlaggedPackages)
                        \subseteq Range(DirectDeps(modules, primaryBuilderPlugins, i))
            ELSE /\ DynamicDependencies(modules[i], primaryBuilderPlugins) = <<>>
                 /\ DirectDeps(modules, primaryBuilderPlugins, i)
                        = DirectDeps(modules, <<>>, i)

\* C14 as stated: after the discovery pass the plugin list is the sequence
\* of the package identifiers of the flagged goPackage modules, each once, in
\* visiting order, and it is the dynamic dependency list of a flagged
\* goBinary, any other goBinary having none.
C14_ListOfPackageIdentifiers ==
    DiscoveryDone =>
        /\ primaryBuilderPlugins = FlaggedPkgPaths
        /\ DynamicDepsArePluginList

\* C14 amended: after the discovery pass the plugin list is the sequence of
\* the module names of the flagged goPackage modules in visiting order, once
\* for every discovery pass the process has run (so exactly once after the
\* first); unflagged packages and binaries contribute nothing; the list is
\* the dynamic dependency list of a flagged goBinary and any other goBinary
\* has none.
C14_ListOfModuleNames ==
    DiscoveryDone =>
        /\ primaryBuilderPlugins = Repeat(FlaggedNames, run)
        /\ run = 1 => primaryBuilderPlugins = FlaggedNames
        /\ DynamicDepsArePluginList

\* C14 witness: the first generation has finished over a flagged package with
\* a package identifier and a flagged binary that depends on it dynamically
\* only.
C14_Witness ==
    /\ phase = "done" /\ run = 1
    /\ \E i \in FlaggedBinaries :
        \E k \in 1..Len(FlaggedPackages) :
            /\ modules[FlaggedPackages[k]].PkgPath # ""
            /\ modules[i].deps = <<>>
            /\ FlaggedPackages[k] \in Range(DirectDeps(modules, primaryBuilderPlugins, i))
            /\ primaryBuilderPlugins = <<modules[FlaggedPackages[k]].name>>

\* How many times path occurs in the sequence s.
Occurrences(s, path) == Cardinality({k \in 1..Len(s) : s[k] = path})

\* Every goBinary's output path occurs exactly once in the singleton's two
\* lists together, in rebootstrapDeps if and only if the module's stage after
\* propagation is Bootstrap.
BinariesPartitioned ==
    \A i \in Slots :
        modules[i].kind = "goBinary" =>
            /\ Occurrences(rebootstrapDeps, BinaryFileOf(i))
                + Occurrences(primaryRebootstrapDeps, BinaryFileOf(i)) = 1
            /\ BinaryFileOf(i) \in Range(rebootstrapDeps)
                    <=> modules[i].buildStage = StageBootstrap
            /\ BinaryFileOf(i) \in Range(primaryRebootstrapDeps)
                    <=> modules[i].buildStage \in {StagePrimary, StageMain}

\* The top-level Blueprints file is in both lists and the documentation file
\* in primaryRebootstrapDeps only.
FilesInLists ==
    /\ "$srcDir/Blueprints" \in Range(rebootstrapDeps)
    /\ "$srcDir/Blueprints" \in Range(primaryRebootstrapDeps)
    /\ DocsFile \in Range(primaryRebootstrapDeps)
    /\ DocsFile \notin Range(rebootstrapDeps)

\* C15 as stated: after every run of the singleton its two lists partition
\* the binaries by stage and hold the top-level file (both) and the
\* documentation file (primaryRebootstrapDeps only).
C15_PartitionInEveryGeneration ==
    phase = "done" => (BinariesPartitioned /\ FilesInLists)

\* C15 amended: after every run of the singleton its two lists partition the
\* binaries by stage; if at most one goBinary is flagged they also hold the
\* top-level file (both) and the documentation file (primaryRebootstrapDeps
\* only), and in Main stage they are the dependencies of the two touch
\* actions (with several flagged binaries the singleton returns before it
\* adds the files).
C15_BinaryPartition ==
    phase = "done" =>
        /\ BinariesPartitioned
        /\ Cardinality(FlaggedBinaries) <= 1 =>
            /\ FilesInLists
            /\ config.stage = StageMain =>
                /\ TouchedAgainst(PrimaryTimestamp, Range(rebootstrapDeps))
                /\ TouchedAgainst(MainTimestamp, Range(primaryRebootstrapDeps))

\* C15 witness: a finished Main-stage generation over a binary that
\* propagation moved to stage Bootstrap and a binary of a later stage.
C15_Witness ==
    /\ phase = "done" /\ config.stage = StageMain
    /\ Cardinality(FlaggedBinaries) <= 1
    /\ \E i, j \in Slots :
        /\ modules[i].kind = "goBinary"
        /\ modules[i].buildStage = StageBootstrap
        /\ modules[i].factoryStage # StageBootstrap
        /\ modules[j].kind = "goBinary"
        /\ modules[j].buildStage # StageBootstrap

\* Every path declared as an output by an action emitted in this generation.
ModuleOutputs(i) ==
    UNION {Range(moduleActions[i][k].Outputs) : k \in 1..Len(moduleActions[i])}
SingletonOutputs ==
    UNION {Range(singletonActions[k].Outputs) : k \in 1..Len(singletonActions)}
AllOutputs == SingletonOutputs \cup UNION {ModuleOutputs(i) : i \in Slots}

\* The dependency archives the compile and placeholder actions of module i
\* declare as dependencies.
ArchiveDeps(i) ==
    UNION {Range(moduleActions[i][k].Implicits) \ {"$compileCmd"} :
            k \in {n \in 1..Len(moduleActions[i]) :
                        moduleActions[i][n].Rule \in {"compile", "phony"}}}

\* The binaries and test artifacts of the modules of the graph.
ModuleArtifacts ==
    {BinaryFileOf(i) : i \in {j \in Slots : modules[j].kind = "goBinary"}}
    \cup UNION {{TestPkgArchiveOf(i), TestPassedOf(i)} : i \in {j \in Slots : CarriesStage(j)}}

\* The module artifacts the singleton's actions declare as dependencies.
SingletonArtifactDeps ==
    UNION {DepsOf(singletonActions[k]) : k \in 1..Len(singletonActions)}
        \cap ModuleArtifacts

\* C16 as stated: in a finished generation of any stage over a graph whose
\* packages all have a package identifier, every dependency archive a module's
\* compile or placeholder action depends on, and every module binary or test
\* artifact a singleton action depends on, is an output of an action emitted
\* in the same generation.
C16_NoDanglingDependency ==
    (phase = "done" /\ \A i \in Slots : ~Faulty(i)) =>
        /\ \A i \in Slots : ArchiveDeps(i) \subseteq AllOutputs
        /\ SingletonArtifactDeps \subseteq AllOutputs

\* The emitted actions that declare path as an output: <<i, k>> is the k-th
\* action of module i, <<0, k>> the k-th action of the singleton.
Producers(path) ==
    {ik \in UNION {{i} \X (1..Len(moduleActions[i])) : i \in Slots} :
        path \in Range(moduleActions[ik[1]][ik[2]].Outputs)}
    \cup ({0} \X {k \in 1..Len(singletonActions) :
                    path \in Range(singletonActions[k].Outputs)})

\* C17 as stated: in a finished generation no path is an output of more than
\* one emitted action, the modules' and the singleton's taken together.
C17_OutputsUnique ==
    phase = "done" => \A path \in AllOutputs : Cardinality(Producers(path)) = 1

====
